---- MODULE Spec2Model ----
(***************************************************************************)
(* Model of the process/ledger API of src/api/server.js: one PostgreSQL    *)
(* table "processes" (one row per process, the movement and link lists as  *)
(* JSONB arrays in the row) and the express handlers that read and write   *)
(* it.  A handler runs until its next "await pool.query(...)"; a query is  *)
(* one atomic statement of the store, and other handlers run between two   *)
(* queries of the same handler.                                            *)
(***************************************************************************)
EXTENDS Integers, Sequences, FiniteSets

\* ------------------------------------------------------------------ bounds
\* rows the table may hold (ids 1..MaxProc are the SERIAL values handed out)
MaxProc == 1
\* readings of the clock behind Date.now() and CURRENT_TIMESTAMP
MaxClock == 2
\* requests handled at the same time
NumHandlers == 2
\* requests received in one behaviour
MaxReqs == 4
MaxRows == 2        \* rows of the table that GET /api/processes is run on

\* ------------------------------------------------------------- JS / SQL values
\* JSON null / SQL NULL, and a key absent from the request body (JS undefined;
\* JSON.stringify drops the key and jsonb_to_recordset reads it back as NULL)
Null == "null"
Undefined == "undefined"
\* JSON booleans as stored in the JSONB array
JsTrue == "true"
JsFalse == "false"

\* the test of "if (x)", "!x" and "x || null"
\* faulty variant: no value is rejected
TruthyAlways(v) == TRUE

Truthy(v) == v \notin {Null, Undefined, "", JsFalse}

\* x || null
OrNull(v) == IF Truthy(v) THEN v ELSE Null

Distribuido == "Distribuído"
Pendente == "Pendente de manifestação"
EmExecucao == "Em fase de execução"

\* ------------------------------------------------------------ request inputs
Ids == 1..MaxProc
Times == 1..MaxClock
NumeroInputs == {"", "123"}
ClienteInputs == {Undefined, "Acme"}
AudienciaInputs == {"", "2025-02-01"}
DescricaoInputs == {"", "Petição"}
PrazoInputs == {Null, "", "2025-01-10"}
EditInputs ==
    {[descricao |-> "Despacho", concluido |-> JsTrue],
     [descricao |-> "Despacho", concluido |-> JsFalse],
     [descricao |-> "Despacho", concluido |-> Undefined],
     [descricao |-> Undefined, concluido |-> JsTrue]}
StatusInputs == {"", Pendente, EmExecucao}
UrlInputs == {"", "http://x"}

VARIABLES
    boot,       \* startServer: where startup stands, with connectWithRetry's locals
    processes,  \* the table: processes[id] is the row with that id
    clock,      \* the current time
    handler,    \* handler[h]: the request slot h is serving, with its locals
    response,   \* the last response sent: its status code and, for a view, its body
                \* (the other handlers answer with the row their query returned)
    nreq        \* requests received so far

vars == <<boot, processes, clock, handler, response, nreq>>

Handlers == 1..NumHandlers
Idle == [op |-> "idle"]
NoResponse == [code |-> 0, view |-> "none", body |-> Null]

\* faulty variant: the row count of the UPDATE tested the wrong way round
\* (if (result.rowCount) return res.status(404)...), after the statement ran
ReplyRowCountInverted(op, code) ==
    [code |-> IF code = 200 THEN 404 ELSE code, view |-> "none", body |-> Null]

Reply(op, code) == [code |-> code, view |-> "none", body |-> Null]

Exists(id) == id \in DOMAIN processes

\* ------------------------------------------------------------ SQL statements
\* faulty variant: the INSERT on a table whose status column has no default
InsertProcessNoDefault(id, numero, cliente, proxima_audiencia, now) ==
    [id |-> id,
     numero |-> numero,
     cliente |-> cliente,
     status |-> Null,
     movimentacoes |-> <<>>,
     last_updated |-> now,
     proxima_audiencia |-> OrNull(proxima_audiencia),
     links |-> <<>>]

\* INSERT INTO processes (numero, cliente, ..., proxima_audiencia, ...):
\* status, movimentacoes, links and last_updated take the column defaults
InsertProcess(id, numero, cliente, proxima_audiencia, now) ==
    [id |-> id,
     numero |-> numero,
     cliente |-> cliente,
     status |-> Distribuido,
     movimentacoes |-> <<>>,
     last_updated |-> now,
     proxima_audiencia |-> OrNull(proxima_audiencia),
     links |-> <<>>]

\* UPDATE processes SET numero = $1, cliente = $2, proxima_audiencia = $3, ...
UpdateFields(row, numero, cliente, proxima_audiencia, now) ==
    [row EXCEPT !.numero = numero,
                !.cliente = cliente,
                !.proxima_audiencia = OrNull(proxima_audiencia),
                !.last_updated = now]

\* UPDATE processes SET status = $1, last_updated = CURRENT_TIMESTAMP
UpdateStatus(row, status, now) ==
    [row EXCEPT !.status = status, !.last_updated = now]

\* const novaMovimentacao = { id: Date.now(), descricao, timestamp, ... }
NovaMovimentacao(descricao, prazo_fatal, now) ==
    [id |-> now,
     descricao |-> descricao,
     timestamp |-> now,
     concluido |-> JsFalse,
     prazo_fatal |-> OrNull(prazo_fatal)]

\* faulty variant: the status clause is never added to the query
AppendQueryNoStatus(prazo_fatal) == "SET movimentacoes, last_updated"

\* let query = 'UPDATE processes SET movimentacoes = ..., last_updated = ...';
\* if (prazo_fatal) { query += ", status = 'Pendente de manifestação'" }
AppendQuery(prazo_fatal) ==
    IF Truthy(prazo_fatal)
    THEN "SET movimentacoes, last_updated, status"
    ELSE "SET movimentacoes, last_updated"

\* faulty variant: every append forces the status
AppendMovimentacaoForced(row, novaMovimentacao, query, now) ==
    [row EXCEPT !.movimentacoes = Append(@, novaMovimentacao),
                !.last_updated = now,
                !.status = Pendente]

\* UPDATE processes SET movimentacoes = movimentacoes || $1::jsonb,
\*   last_updated = CURRENT_TIMESTAMP [, status = 'Pendente de manifestação']
AppendMovimentacao(row, novaMovimentacao, query, now) ==
    [row EXCEPT !.movimentacoes = Append(@, novaMovimentacao),
                !.last_updated = now,
                !.status = IF query = "SET movimentacoes, last_updated, status"
                           THEN Pendente ELSE @]

\* movimentacoes.findIndex(m => m.id == movId): the first match, 0 for -1
FindIndex(movimentacoes, movId) ==
    IF \E i \in DOMAIN movimentacoes : movimentacoes[i].id = movId
    THEN CHOOSE i \in DOMAIN movimentacoes :
            /\ movimentacoes[i].id = movId
            /\ \A j \in 1..(i - 1) : movimentacoes[j].id # movId
    ELSE 0

\* movimentacoes[movIndex].descricao = descricao; ...concluido = concluido
EditMovimentacao(movimentacoes, movIndex, descricao, concluido) ==
    [movimentacoes EXCEPT ![movIndex].descricao = descricao,
                          ![movIndex].concluido = concluido]

\* faulty variant: the write of the edited list takes the row out of "Pendente de
\* manifestação" once no open deadline is left in the list
UpdateMovimentacoesAutoClear(row, movimentacoes, now) ==
    [row EXCEPT !.movimentacoes = movimentacoes,
                !.last_updated = now,
                !.status = IF /\ @ = Pendente
                              /\ \A i \in DOMAIN movimentacoes :
                                    \/ movimentacoes[i].prazo_fatal = Null
                                    \/ movimentacoes[i].concluido = JsTrue
                           THEN Distribuido ELSE @]

\* UPDATE processes SET movimentacoes = $1, last_updated = CURRENT_TIMESTAMP
UpdateMovimentacoes(row, movimentacoes, now) ==
    [row EXCEPT !.movimentacoes = movimentacoes, !.last_updated = now]

\* const novoLink = { id: Date.now(), url, descricao }
NovoLink(url, descricao, now) == [id |-> now, url |-> url, descricao |-> descricao]

\* UPDATE processes SET links = links || $1::jsonb, last_updated = CURRENT_TIMESTAMP
AppendLink(row, novoLink, now) ==
    [row EXCEPT !.links = Append(@, novoLink), !.last_updated = now]

KeepLink(link, linkId) == link.id # linkId

\* faulty variant: links.splice(links.findIndex(link => link.id == linkId), 1), which
\* takes the last link out when no link has the id (findIndex answers -1)
LinksSpliced(links, linkId) ==
    LET hits == {i \in DOMAIN links : links[i].id = linkId}
        at == IF hits = {} THEN Len(links)
              ELSE CHOOSE i \in hits : \A j \in hits : i <= j
    IN [i \in 1..(Len(links) - 1) |-> IF i < at THEN links[i] ELSE links[i + 1]]

\* linksAtuais.rows[0].links.filter(link => link.id != linkId)
LinksFiltrados(links, linkId) == SelectSeq(links, LAMBDA link : KeepLink(link, linkId))

\* faulty variant: UPDATE processes SET links = $1
UpdateLinksOnly(row, links, now) == [row EXCEPT !.links = links]

\* UPDATE processes SET links = $1, last_updated = CURRENT_TIMESTAMP
UpdateLinks(row, links, now) ==
    [row EXCEPT !.links = links, !.last_updated = now]

\* SELECT ... FROM processes WHERE proxima_audiencia IS NOT NULL
AudienciasRes(procs) ==
    LET rows == {id \in DOMAIN procs : procs[id].proxima_audiencia # Null}
    IN [id \in rows |-> [numero |-> procs[id].numero,
                         cliente |-> procs[id].cliente,
                         date |-> procs[id].proxima_audiencia]]

\* faulty variant: the WHERE clause without the test of concluido
PrazosWhereAnyState(mov) == mov.prazo_fatal # Null

\* WHERE mov.prazo_fatal IS NOT NULL AND mov.concluido = false
\* (concluido read as SQL boolean: an absent key is NULL, and NULL = false is not true)
PrazosWhere(mov) == mov.prazo_fatal # Null /\ mov.concluido = JsFalse

\* FROM processes p, jsonb_to_recordset(p.movimentacoes) AS mov(...) WHERE ...:
\* the joined rows, each named by its process and its place in the list
PrazosRows(procs) ==
    UNION {{<<id, i>> : i \in {j \in DOMAIN procs[id].movimentacoes :
                                  PrazosWhere(procs[id].movimentacoes[j])}} :
           id \in DOMAIN procs}

\* SELECT p.numero, p.cliente, mov.prazo_fatal as date, mov.descricao
PrazosRes(procs) ==
    [r \in PrazosRows(procs) |->
        [numero |-> procs[r[1]].numero,
         cliente |-> procs[r[1]].cliente,
         date |-> procs[r[1]].movimentacoes[r[2]].prazo_fatal,
         descricao |-> procs[r[1]].movimentacoes[r[2]].descricao]]

\* ------------------------------------------------------------------ startup
\* connectWithRetry = async (retries = 5, ...)
Retries == 5

\* startServer calls connectWithRetry first
Starting == [pc |-> "connectWithRetry", retries |-> Retries]

\* connectWithRetry has returned: startServer goes on to initializeDatabase.
\* connected: an attempt of connectWithRetry got a client from the pool
Returned(connected) ==
    [pc |-> "initializeDatabase", connected |-> connected, schema |-> FALSE]

\* faulty variant: the loop ends when the attempts run out and the function
\* returns to startServer
AfterFailureReturns(retries) ==
    IF retries - 1 > 0
    THEN [pc |-> "connectWithRetry", retries |-> retries - 1]
    ELSE Returned(FALSE)

\* the catch block of connectWithRetry: retries--, then wait and loop while
\* attempts are left, else process.exit(1)
AfterFailure(retries) ==
    IF retries - 1 > 0
    THEN [pc |-> "connectWithRetry", retries |-> retries - 1]
    ELSE [pc |-> "exited"]

\* ------------------------------------------------------------------ actions
Init ==
    /\ boot = Starting
    /\ processes = <<>>
    /\ clock = 1
    /\ handler = [h \in Handlers |-> Idle]
    /\ response = NoResponse
    /\ nreq = 0

\* time passes
Tick ==
    /\ clock < MaxClock
    /\ clock' = clock + 1
    /\ UNCHANGED <<boot, processes, handler, response, nreq>>

\* pool.connect() resolves: connectWithRetry returns
ConnectSucceeds ==
    /\ boot.pc = "connectWithRetry"
    /\ boot' = Returned(TRUE)
    /\ UNCHANGED <<processes, clock, handler, response, nreq>>

\* pool.connect() rejects
ConnectFails ==
    /\ boot.pc = "connectWithRetry"
    /\ boot' = AfterFailure(boot.retries)
    /\ UNCHANGED <<processes, clock, handler, response, nreq>>

\* initializeDatabase: pool.connect() is awaited outside the try block, so its
\* rejection leaves startServer ("rejected"); a failing statement is caught and
\* logged ("failed"); else the table and its columns exist ("ok")
InitializeDatabase(outcome) ==
    /\ boot.pc = "initializeDatabase"
    /\ boot' = IF outcome = "rejected"
               THEN [pc |-> "aborted"]
               ELSE [boot EXCEPT !.pc = "listen", !.schema = (outcome = "ok")]
    /\ UNCHANGED <<processes, clock, handler, response, nreq>>

\* app.listen(port, ...)
Listen ==
    /\ boot.pc = "listen"
    /\ boot' = [boot EXCEPT !.pc = "listening"]
    /\ UNCHANGED <<processes, clock, handler, response, nreq>>

\* a request served while the table is missing: a validation error, or the
\* handler's statement throws and its catch block answers 500
ServeWithoutTable(code) ==
    /\ boot.pc = "listening" /\ ~boot.schema
    /\ nreq < MaxReqs
    /\ nreq' = nreq + 1
    /\ response' = Reply("any", code)
    /\ UNCHANGED <<boot, processes, clock, handler>>

Receive == nreq < MaxReqs /\ boot.pc = "listening" /\ boot.schema /\ nreq' = nreq + 1

\* a request whose handler awaits a query takes the first free slot
Free(h) == handler[h] = Idle /\ \A g \in 1..(h - 1) : handler[g] # Idle

\* POST /api/processes
CreateProcess(numero, cliente, proxima_audiencia) ==
    /\ Receive
    /\ IF ~Truthy(numero) \/ ~Truthy(cliente)
       THEN /\ response' = Reply("createProcess", 400)
            /\ UNCHANGED processes
       ELSE /\ Len(processes) < MaxProc
            /\ LET row == InsertProcess(Len(processes) + 1, numero, cliente,
                                        proxima_audiencia, clock)
               IN /\ processes' = Append(processes, row)
                  /\ response' = Reply("createProcess", 201)
    /\ UNCHANGED <<boot, clock, handler>>

\* PUT /api/processes/:id
UpdateProcess(id, numero, cliente, proxima_audiencia) ==
    /\ Receive
    /\ IF ~Truthy(numero) \/ ~Truthy(cliente)
       THEN /\ response' = Reply("updateProcess", 400)
            /\ UNCHANGED processes
       ELSE IF ~Exists(id)
       THEN /\ response' = Reply("updateProcess", 404)
            /\ UNCHANGED processes
       ELSE LET row == UpdateFields(processes[id], numero, cliente,
                                    proxima_audiencia, clock)
            IN /\ processes' = [processes EXCEPT ![id] = row]
               /\ response' = Reply("updateProcess", 200)
    /\ UNCHANGED <<boot, clock, handler>>

\* PUT /api/processes/:id/status
SetStatus(id, status) ==
    /\ Receive
    /\ IF ~Truthy(status)
       THEN /\ response' = Reply("setStatus", 400)
            /\ UNCHANGED processes
       ELSE IF ~Exists(id)
       THEN /\ response' = Reply("setStatus", 404)
            /\ UNCHANGED processes
       ELSE LET row == UpdateStatus(processes[id], status, clock)
            IN /\ processes' = [processes EXCEPT ![id] = row]
               /\ response' = Reply("setStatus", 200)
    /\ UNCHANGED <<boot, clock, handler>>

\* POST /api/processes/:id/movimentacoes, up to the await of the UPDATE
AppendMovementBegin(h, id, descricao, prazo_fatal) ==
    /\ Receive
    /\ Free(h)
    /\ IF ~Truthy(descricao)
       THEN /\ response' = Reply("appendMovement", 400)
            /\ UNCHANGED handler
       ELSE /\ handler' = [handler EXCEPT ![h] =
                  [op |-> "appendMovement",
                   id |-> id,
                   novaMovimentacao |-> NovaMovimentacao(descricao, prazo_fatal, clock),
                   query |-> AppendQuery(prazo_fatal)]]
            /\ UNCHANGED response
    /\ UNCHANGED <<boot, processes, clock>>

\* POST /api/processes/:id/movimentacoes, the UPDATE and the response
AppendMovementQuery(h) ==
    /\ handler[h].op = "appendMovement"
    /\ LET req == handler[h]
       IN IF ~Exists(req.id)
          THEN /\ response' = Reply("appendMovement", 404)
               /\ UNCHANGED processes
          ELSE LET row == AppendMovimentacao(processes[req.id], req.novaMovimentacao,
                                             req.query, clock)
               IN /\ processes' = [processes EXCEPT ![req.id] = row]
                  /\ response' = Reply("appendMovement", 200)
    /\ handler' = [handler EXCEPT ![h] = Idle]
    /\ UNCHANGED <<boot, clock, nreq>>

\* PUT /api/processes/:id/movimentacoes/:movId, the SELECT and the edit of the copy
UpdateMovementSelect(h, id, movId, descricao, concluido) ==
    /\ Receive
    /\ Free(h)
    /\ IF ~Exists(id)
       THEN /\ response' = Reply("updateMovement", 404)
            /\ UNCHANGED handler
       ELSE LET movimentacoes == processes[id].movimentacoes
                movIndex == FindIndex(movimentacoes, movId)
            IN IF movIndex = 0
               THEN /\ response' = Reply("updateMovement", 404)
                    /\ UNCHANGED handler
               ELSE /\ handler' = [handler EXCEPT ![h] =
                          [op |-> "updateMovement",
                           id |-> id,
                           movId |-> movId,
                           movimentacoes |-> EditMovimentacao(movimentacoes, movIndex,
                                                              descricao, concluido)]]
                    /\ UNCHANGED response
    /\ UNCHANGED <<boot, processes, clock>>

\* PUT /api/processes/:id/movimentacoes/:movId, the UPDATE and the response
UpdateMovementUpdate(h) ==
    /\ handler[h].op = "updateMovement"
    /\ LET req == handler[h]
           row == UpdateMovimentacoes(processes[req.id], req.movimentacoes, clock)
       IN /\ processes' = [processes EXCEPT ![req.id] = row]
          /\ response' = Reply("updateMovement", 200)
    /\ handler' = [handler EXCEPT ![h] = Idle]
    /\ UNCHANGED <<boot, clock, nreq>>

\* POST /api/processes/:id/links, up to the await of the UPDATE
AddLinkBegin(h, id, url, descricao) ==
    /\ Receive
    /\ Free(h)
    /\ IF ~Truthy(url) \/ ~Truthy(descricao)
       THEN /\ response' = Reply("addLink", 400)
            /\ UNCHANGED handler
       ELSE /\ handler' = [handler EXCEPT ![h] =
                  [op |-> "addLink", id |-> id,
                   novoLink |-> NovoLink(url, descricao, clock)]]
            /\ UNCHANGED response
    /\ UNCHANGED <<boot, processes, clock>>

\* POST /api/processes/:id/links, the UPDATE and the response
AddLinkQuery(h) ==
    /\ handler[h].op = "addLink"
    /\ LET req == handler[h]
       IN IF ~Exists(req.id)
          THEN /\ response' = Reply("addLink", 404)
               /\ UNCHANGED processes
          ELSE LET row == AppendLink(processes[req.id], req.novoLink, clock)
               IN /\ processes' = [processes EXCEPT ![req.id] = row]
                  /\ response' = Reply("addLink", 200)
    /\ handler' = [handler EXCEPT ![h] = Idle]
    /\ UNCHANGED <<boot, clock, nreq>>

\* DELETE /api/processes/:id/links/:linkId, the SELECT and the filter
RemoveLinkSelect(h, id, linkId) ==
    /\ Receive
    /\ Free(h)
    /\ IF ~Exists(id)
       THEN /\ response' = Reply("removeLink", 404)
            /\ UNCHANGED handler
       ELSE /\ handler' = [handler EXCEPT ![h] =
                  [op |-> "removeLink", id |-> id, linkId |-> linkId,
                   linksFiltrados |-> LinksFiltrados(processes[id].links, linkId)]]
            /\ UNCHANGED response
    /\ UNCHANGED <<boot, processes, clock>>

\* DELETE /api/processes/:id/links/:linkId, the UPDATE and the response
RemoveLinkUpdate(h) ==
    /\ handler[h].op = "removeLink"
    /\ LET req == handler[h]
           row == UpdateLinks(processes[req.id], req.linksFiltrados, clock)
       IN /\ processes' = [processes EXCEPT ![req.id] = row]
          /\ response' = Reply("removeLink", 200)
    /\ handler' = [handler EXCEPT ![h] = Idle]
    /\ UNCHANGED <<boot, clock, nreq>>

\* GET /api/calendario, the first query
CalendarioAudiencias(h) ==
    /\ Receive
    /\ Free(h)
    /\ handler' = [handler EXCEPT ![h] =
          [op |-> "calendario", audiencias |-> AudienciasRes(processes)]]
    /\ UNCHANGED <<boot, processes, clock, response>>

\* GET /api/calendario, the second query and the response
CalendarioPrazos(h) ==
    /\ handler[h].op = "calendario"
    /\ response' = [code |-> 200, view |-> "calendario",
                    body |-> [audiencias |-> handler[h].audiencias,
                              prazos |-> PrazosRes(processes)]]
    /\ handler' = [handler EXCEPT ![h] = Idle]
    /\ UNCHANGED <<boot, processes, clock, nreq>>

Next ==
    \/ Tick
    \/ ConnectSucceeds
    \/ ConnectFails
    \/ \E outcome \in {"ok", "failed", "rejected"} : InitializeDatabase(outcome)
    \/ Listen
    \/ \E code \in {400, 500} : ServeWithoutTable(code)
    \/ \E n \in NumeroInputs, c \in ClienteInputs : CreateProcess(n, c, Undefined)
    \/ \E id \in Ids, n \in NumeroInputs, c \in ClienteInputs, a \in AudienciaInputs :
          UpdateProcess(id, n, c, a)
    \/ \E id \in Ids, s \in StatusInputs : SetStatus(id, s)
    \/ \E h \in Handlers, id \in Ids, d \in DescricaoInputs, p \in PrazoInputs :
          AppendMovementBegin(h, id, d, p)
    \/ \E h \in Handlers : AppendMovementQuery(h)
    \/ \E h \in Handlers, id \in Ids, m \in Times, b \in EditInputs :
          UpdateMovementSelect(h, id, m, b.descricao, b.concluido)
    \/ \E h \in Handlers : UpdateMovementUpdate(h)
    \/ \E h \in Handlers, id \in Ids, u \in UrlInputs, d \in DescricaoInputs :
          AddLinkBegin(h, id, u, d)
    \/ \E h \in Handlers : AddLinkQuery(h)
    \/ \E h \in Handlers, id \in Ids, l \in Times : RemoveLinkSelect(h, id, l)
    \/ \E h \in Handlers : RemoveLinkUpdate(h)
    \/ \E h \in Handlers : CalendarioAudiencias(h)
    \/ \E h \in Handlers : CalendarioPrazos(h)

Spec == Init /\ [][Next]_vars

\* ------------------------------------------- edits of a process's movements
\* the row left by createProcess and two appendMovement requests, served at
\* times 1 and 2
TwoMovements ==
    AppendMovimentacao(
        AppendMovimentacao(InsertProcess(1, "123", "Acme", Undefined, 1),
                           NovaMovimentacao("Petição", Null, 1), AppendQuery(Null), 1),
        NovaMovimentacao("Petição", Null, 2), AppendQuery(Null), 2)

\* the server is listening and the table holds that row
InitEdits ==
    /\ boot = [Returned(TRUE) EXCEPT !.pc = "listening", !.schema = TRUE]
    /\ processes = <<TwoMovements>>
    /\ clock = 2
    /\ handler = [h \in Handlers |-> Idle]
    /\ response = NoResponse
    /\ nreq = 0

\* updateMovement requests only
NextEdits ==
    \/ \E h \in Handlers, id \in Ids, m \in Times, b \in EditInputs :
          UpdateMovementSelect(h, id, m, b.descricao, b.concluido)
    \/ \E h \in Handlers : UpdateMovementUpdate(h)

SpecEdits == InitEdits /\ [][NextEdits]_vars

\* ------------------------------------------------------------------ helpers
Range(s) == {s[i] : i \in DOMAIN s}

\* what never changes in a movement: the fields updateMovement does not assign
MovKey(mov) == <<mov.id, mov.timestamp, mov.prazo_fatal>>
MovKeys(movimentacoes) == [i \in DOMAIN movimentacoes |-> MovKey(movimentacoes[i])]

\* s is t with zero or more elements left out
RECURSIVE IsSubseq(_, _)
IsSubseq(s, t) ==
    IF s = <<>> THEN TRUE
    ELSE IF t = <<>> THEN FALSE
    ELSE IF Head(s) = Head(t) THEN IsSubseq(Tail(s), Tail(t))
    ELSE IsSubseq(s, Tail(t))

\* the step in which slot h runs its last query and answers
Answers(h, op) == handler[h].op = op /\ handler'[h] = Idle

\* the step in which slot h receives a request and goes on to await a query
Accepts(h, op) == handler[h] = Idle /\ handler'[h].op = op

\* the steps that may write the status column of row id
DeadlineAppend(h, id) ==
    /\ handler[h].op = "appendMovement"
    /\ handler[h].id = id
    /\ handler[h].novaMovimentacao.prazo_fatal # Null
    /\ AppendMovementQuery(h)

StatusWriter(id) ==
    \/ \E s \in StatusInputs : SetStatus(id, s)
    \/ \E h \in Handlers : DeadlineAppend(h, id)

\* ------------------------------------------------------------------- claims

C2_PlainAppendKeepsStatus ==
    [][\A h \in Handlers :
          (/\ Answers(h, "appendMovement")
           /\ Exists(handler[h].id)
           /\ handler[h].novaMovimentacao.prazo_fatal = Null)
          => LET id == handler[h].id
             IN /\ processes'[id].status = processes[id].status
                /\ processes'[id].movimentacoes =
                      Append(processes[id].movimentacoes, handler[h].novaMovimentacao)]_vars

\* C2 witness: a movement without deadline was appended to a row that stays
\* "Pendente de manifestação"
C2_Witness ==
    \E id \in DOMAIN processes :
        /\ processes[id].status = Pendente
        /\ Len(processes[id].movimentacoes) >= 2
        /\ processes[id].movimentacoes[Len(processes[id].movimentacoes)].prazo_fatal = Null

\* C3: movements are never deleted: every movement of a row is in the row's
\* list after any step, in the same relative order.
C3_MovementsNeverDeleted ==
    [][\A id \in DOMAIN processes :
          IsSubseq(MovKeys(processes[id].movimentacoes),
                   MovKeys(processes'[id].movimentacoes))]_vars

\* C4: a link leaves a row's list only in the step of a removeLink of that
\* link's id: no added link is lost to a removeLink of another id.
C4_LinkLostOnlyToItsRemove ==
    [][\A id \in DOMAIN processes :
          \A link \in Range(processes[id].links) \ Range(processes'[id].links) :
              \E h \in Handlers :
                  /\ Answers(h, "removeLink")
                  /\ handler[h].id = id
                  /\ handler[h].linkId = link.id]_vars

\* C5: in every row the movement list is ordered by timestamp.
C5_TimestampMonotonic ==
    \A id \in DOMAIN processes :
        LET movimentacoes == processes[id].movimentacoes
        IN \A i, j \in DOMAIN movimentacoes :
              i < j => movimentacoes[i].timestamp <= movimentacoes[j].timestamp

\* C6: a created process has status "Distribuído" and empty movement and link
\* lists, and a row leaves "Distribuído" only in a step of setStatus or of an
\* appendMovement carrying a deadline.
C6_CreatedDistribuido ==
    [][/\ Len(processes') > Len(processes)
          => LET row == processes'[Len(processes')]
             IN /\ row.status = Distribuido
                /\ row.movimentacoes = <<>>
                /\ row.links = <<>>
       /\ \A id \in DOMAIN processes :
             (processes[id].status = Distribuido /\ processes'[id].status # Distribuido)
             => StatusWriter(id)]_vars

\* C6 witness: a row that was written after its creation (a movement without
\* deadline is in it) and is still "Distribuído"
C6_Witness ==
    \E id \in DOMAIN processes :
        /\ processes[id].status = Distribuido
        /\ processes[id].movimentacoes # <<>>

\* C7: the deadline list a calendar request answers with has no entry that
\* comes from a movement whose concluido is true.
C7_FeedExcludesConcluded ==
    [][\A h \in Handlers :
          Answers(h, "calendario")
          => \A r \in DOMAIN response'.body.prazos :
                processes[r[1]].movimentacoes[r[2]].concluido # JsTrue]_vars

\* C7 witness: a calendar answer that leaves out a concluded deadline movement
C7_Witness ==
    /\ response.view = "calendario"
    /\ \E id \in DOMAIN processes :
          \E i \in DOMAIN processes[id].movimentacoes :
              /\ processes[id].movimentacoes[i].prazo_fatal # Null
              /\ processes[id].movimentacoes[i].concluido = JsTrue
              /\ <<id, i>> \notin DOMAIN response.body.prazos

\* C8: the deadline query lists every movement that has a prazo_fatal and is
\* not concluded (concluido is not true).
C8_FeedListsOpenDeadlines ==
    \A id \in DOMAIN processes :
        \A i \in DOMAIN processes[id].movimentacoes :
            LET mov == processes[id].movimentacoes[i]
            IN (mov.prazo_fatal # Null /\ mov.concluido # JsTrue)
               => <<id, i>> \in PrazosRows(processes)

\* C9: the status of a row changes only in a step of setStatus or of an
\* appendMovement carrying a deadline; updateMovement, updateProcess, addLink
\* and removeLink leave it as it is.
C9_StatusOnlyByWriters ==
    [][\A id \in DOMAIN processes :
          processes'[id].status # processes[id].status => StatusWriter(id)]_vars

\* C9 witness: the deadline movement of a row was marked concluido and the row
\* is still "Pendente de manifestação"
C9_Witness ==
    \E id \in DOMAIN processes :
        /\ processes[id].status = Pendente
        /\ \E i \in DOMAIN processes[id].movimentacoes :
              /\ processes[id].movimentacoes[i].prazo_fatal # Null
              /\ processes[id].movimentacoes[i].concluido = JsTrue

\* C10: removeLink on an existing process never answers not-found; the list
\* it writes is the list it read without the links of that id, which is the
\* list itself when no link has the id, and filtering it again changes nothing.
C10_RemoveLinkIdempotent ==
    [][\A h \in Handlers :
          /\ Accepts(h, "removeLink")
             => LET links == processes[handler'[h].id].links
                    linkId == handler'[h].linkId
                    once == handler'[h].linksFiltrados
                IN /\ response' = response
                   /\ (\A link \in Range(links) : link.id # linkId) => once = links
                   /\ IsSubseq(once, links)
                   /\ \A link \in Range(links) : link.id # linkId => link \in Range(once)
                   /\ LinksFiltrados(once, linkId) = once
          /\ Answers(h, "removeLink")
             => /\ response'.code = 200
                /\ processes'[handler[h].id].links = handler[h].linksFiltrados]_vars

\* C10 witness: a removeLink of an id no link has, on a row with a link,
\* about to write the list back
C10_Witness ==
    \E h \in Handlers :
        /\ handler[h].op = "removeLink"
        /\ processes[handler[h].id].links # <<>>
        /\ handler[h].linksFiltrados = processes[handler[h].id].links
        /\ \A link \in Range(processes[handler[h].id].links) : link.id # handler[h].linkId

\* the step in which a request is answered: at once (nothing awaited), or by
\* the slot that served it
Answered ==
    \/ nreq' # nreq /\ handler' = handler
    \/ \E h \in Handlers : handler[h] # Idle /\ handler'[h] = Idle

\* C11: a request answered with a validation error (400) or a not-found error
\* (404) leaves the table as it was: no row, list or last_updated differs.
C11_ErrorsLeaveStore ==
    [][(Answered /\ response'.code \in {400, 404}) => processes' = processes]_vars

\* C11 witness: a not-found answer (unknown movement id) on a table that holds
\* a process with movements
C11_Witness ==
    /\ response.code = 404
    /\ \E id \in DOMAIN processes : processes[id].movimentacoes # <<>>

\* C12: the server listens only if an attempt of connectWithRetry succeeded,
\* and when the last of the 5 attempts fails startup ends there: the process
\* has exited, and it never listens afterwards.
C12_ListenOnlyConnected ==
    [][ /\ (boot'.pc = "listening" => boot'.connected)
        /\ (ConnectFails /\ boot.retries = 1 => boot'.pc = "exited")
        /\ (boot.pc = "exited" => boot'.pc = "exited") ]_vars

\* C12 witness: all attempts failed and startup ended without listening
C12_Witness == boot.pc = "exited"

\* after the step, process id carries the current time as its last_updated,
\* and no process of the table carries a greater one
JustUpdated(id) ==
    /\ processes'[id].last_updated = clock
    /\ \A j \in DOMAIN processes' :
          processes'[j].last_updated <= processes'[id].last_updated

C14_MovementIdsDistinct ==
    \A id \in DOMAIN processes :
        \A i, j \in DOMAIN processes[id].movimentacoes :
            i # j => processes[id].movimentacoes[i].id # processes[id].movimentacoes[j].id

\* C15: within a process the ids of the links are pairwise distinct, also
\* after two addLink requests handled at the same clock reading.
C15_LinkIdsDistinct ==
    \A id \in DOMAIN processes :
        \A i, j \in DOMAIN processes[id].links :
            i # j => processes[id].links[i].id # processes[id].links[j].id

\* C16: every process of the table has a status that is neither null nor the
\* empty string.
C16_StatusNeverEmpty ==
    \A id \in DOMAIN processes : processes[id].status \notin {Null, Undefined, ""}

\* C16 witness: a request was rejected as invalid while a process whose status
\* had been set keeps that status
C16_Witness ==
    /\ response.code = 400
    /\ \E id \in DOMAIN processes : processes[id].status = EmExecucao

\* C17: every movement of every process has a non-empty descricao, whatever
\* appendMovement and updateMovement requests have been served.
C17_DescricaoNeverEmpty ==
    \A id \in DOMAIN processes :
        \A i \in DOMAIN processes[id].movimentacoes :
            processes[id].movimentacoes[i].descricao \notin {Null, Undefined, ""}

\* C19: the statement of a successful updateMovement changes only the
\* descricao and concluido of the movement whose id is movId: that movement's
\* id, timestamp and prazo_fatal, every other movement, the length and order
\* of the list, and the links of the process are as they were.
C19_UpdateMovementFrame ==
    [][\A h \in Handlers :
         (handler[h].op = "updateMovement" /\ handler'[h] = Idle /\ response'.code = 200)
         => LET old == processes[handler[h].id]
                new == processes'[handler[h].id]
                movIndex == FindIndex(old.movimentacoes, handler[h].movId)
            IN /\ new.links = old.links
               /\ Len(new.movimentacoes) = Len(old.movimentacoes)
               /\ \A i \in DOMAIN old.movimentacoes :
                     IF i = movIndex
                     THEN /\ new.movimentacoes[i].id = old.movimentacoes[i].id
                          /\ new.movimentacoes[i].timestamp = old.movimentacoes[i].timestamp
                          /\ new.movimentacoes[i].prazo_fatal = old.movimentacoes[i].prazo_fatal
                     ELSE new.movimentacoes[i] = old.movimentacoes[i]]_vars

\* C20: when two updateMovement requests on different movements of one
\* process overlap, each movement ends with its own request's edit: the
\* statement of an updateMovement leaves every movement whose id is not its
\* movId as the table holds it, so it reverts no edit made by the other.
C20_ConcurrentEditsKept ==
    [][\A g \in Handlers :
         (handler[g].op = "updateMovement" /\ handler'[g] = Idle)
         => LET old == processes[handler[g].id].movimentacoes
                new == processes'[handler[g].id].movimentacoes
            IN \A i \in DOMAIN old :
                 old[i].id # handler[g].movId
                 => i \in DOMAIN new /\ new[i] = old[i]]_vars

\* ------------------------------------------------------ GET /api/processes
\* For this query a text is the sequence of its characters, and a query
\* parameter that is absent is the empty text (both fail "if (x)").
Todos == <<"T", "o", "d", "o", "s">>
TribunalValues == {<<"S">>, <<"T">>}
TribunalQueries == {<<>>, Todos, <<"S">>, <<"S", ",", "T">>}
VaraValues == {<<"1", "a">>, <<"2", "a">>}
VaraQueries == {<<>>, <<"1", "a">>, <<"a">>}
NumeroValues == {<<"1", "2">>, <<"3">>}
ClienteValues == {<<"A", "c">>, <<"b">>}
SearchQueries == {<<>>, <<"a">>, <<"2">>, <<"c", "b">>}

\* the columns of a row that the query reads
ListRows ==
    [numero : NumeroValues, cliente : ClienteValues, tribunal : TribunalValues,
     vara : VaraValues, last_updated : Times]

\* tribunal.split(',')
RECURSIVE Split(_)
Split(text) ==
    LET commas == {i \in DOMAIN text : text[i] = ","}
    IN IF commas = {}
       THEN <<text>>
       ELSE LET n == CHOOSE i \in commas : \A j \in commas : i <= j
            IN <<SubSeq(text, 1, n - 1)>> \o Split(SubSeq(text, n + 1, Len(text)))

\* the letter that ILIKE compares
Lower(c) == CASE c = "A" -> "a" [] c = "S" -> "s" [] c = "T" -> "t" [] OTHER -> c

\* text ILIKE pattern: % is any run of characters, _ any one character
RECURSIVE ILike(_, _)
ILike(text, pattern) ==
    IF pattern = <<>>
    THEN text = <<>>
    ELSE IF Head(pattern) = "%"
    THEN \/ ILike(text, Tail(pattern))
         \/ text # <<>> /\ ILike(Tail(text), pattern)
    ELSE /\ text # <<>>
         /\ Head(pattern) = "_" \/ Lower(Head(pattern)) = Lower(Head(text))
         /\ ILike(Tail(text), Tail(pattern))

\* `%${search}%`
SearchParam(search) == <<"%">> \o search \o <<"%">>

\* the WHERE clause built from the conditions, empty when there are none
ListWhere(row, tribunal, vara, search) ==
    /\ (tribunal # <<>> /\ tribunal # Todos)
          => \E i \in DOMAIN Split(tribunal) : row.tribunal = Split(tribunal)[i]
    /\ vara # <<>> => row.vara = vara
    /\ search # <<>>
          => \/ ILike(row.numero, SearchParam(search))
             \/ ILike(row.cliente, SearchParam(search))

\* ORDER BY last_updated DESC: the orders a result may come in (rows with the
\* same last_updated come in any order)
OrderedByLastUpdated(rows) ==
    {res \in [1..Cardinality(rows) -> rows] :
        /\ \A i, j \in DOMAIN res : i # j => res[i] # res[j]
        /\ \A i, j \in DOMAIN res : i < j => res[i].last_updated >= res[j].last_updated}

\* GET /api/processes?tribunal=&vara=&search=
ListProcesses(tribunal, vara, search) ==
    /\ Receive
    /\ LET rows == {processes[id] : id \in {i \in DOMAIN processes :
                         ListWhere(processes[i], tribunal, vara, search)}}
       IN \E res \in OrderedByLastUpdated(rows) :
             response' = [code |-> 200, view |-> "processes", body |-> res]
    /\ UNCHANGED <<boot, processes, clock, handler>>

\* the server is listening and the table holds any rows, each with its id
InitList ==
    /\ boot = [Returned(TRUE) EXCEPT !.pc = "listening", !.schema = TRUE]
    /\ \E n \in 0..MaxRows : \E rows \in [1..n -> ListRows] :
          processes = [id \in 1..n |->
                         [id |-> id, numero |-> rows[id].numero,
                          cliente |-> rows[id].cliente,
                          tribunal |-> rows[id].tribunal, vara |-> rows[id].vara,
                          last_updated |-> rows[id].last_updated]]
    /\ clock = MaxClock
    /\ handler = [h \in Handlers |-> Idle]
    /\ response = NoResponse
    /\ nreq = 0

NextList ==
    \E t \in TribunalQueries, v \in VaraQueries, s \in SearchQueries :
        ListProcesses(t, v, s)

SpecList == InitList /\ [][NextList]_vars

\* text contains sub, letter case apart
ContainsText(text, sub) ==
    \E i \in 1..(Len(text) - Len(sub) + 1) :
        \A k \in 1..Len(sub) : Lower(text[i + k - 1]) = Lower(sub[k])

\* the filters as the description of listProcesses states them
SatisfiesFilters(row, tribunal, vara, search) ==
    /\ (tribunal # <<>> /\ tribunal # Todos)
          => \E i \in DOMAIN Split(tribunal) : row.tribunal = Split(tribunal)[i]
    /\ vara # <<>> => ContainsText(row.vara, vara)
    /\ search # <<>>
          => ContainsText(row.numero, search) \/ ContainsText(row.cliente, search)

\* C18: listProcesses returns exactly the processes that satisfy every filter
\* supplied (tribunal equal to one of the comma-separated values, vara
\* containing the given text, numero or cliente containing the search text),
\* each once, in non-increasing last_updated order.
C18_ListMatchesFilters ==
    [][\A t \in TribunalQueries, v \in VaraQueries, s \in SearchQueries :
         ListProcesses(t, v, s)
         => LET res == response'.body
                expected == {processes[id] : id \in {i \in DOMAIN processes :
                                SatisfiesFilters(processes[i], t, v, s)}}
            IN /\ Range(res) = expected
               /\ Len(res) = Cardinality(expected)
               /\ \A i, j \in DOMAIN res :
                     i < j => res[i].last_updated >= res[j].last_updated]_vars

\* C21: the server listens only after initializeDatabase completed with every
\* schema statement done: it never serves against an incomplete schema.
C21_ListenOnlySchemaOk == boot.pc = "listening" => boot.schema

\* ---------------------------------------------------------- GET /api/gestao
\* clock readings in a week
TicksPerWeek == 2

\* DATE_TRUNC('week', NOW())
DateTruncWeek(now) == now - (now % TicksPerWeek)

\* SELECT id, numero, cliente FROM processes WHERE status = ... ORDER BY
\* last_updated DESC: the results the query may give
StatusRes(procs, status) ==
    LET rows == {procs[id] : id \in {i \in DOMAIN procs : procs[i].status = status}}
    IN {[k \in DOMAIN res |-> [id |-> res[k].id, numero |-> res[k].numero,
                               cliente |-> res[k].cliente]] :
           res \in OrderedByLastUpdated(rows)}

\* a value of a movement read through jsonb_to_recordset: an absent key is NULL
Column(v) == IF v = Undefined THEN Null ELSE v

\* SELECT p.numero, mov.* FROM processes p, jsonb_to_recordset(p.movimentacoes)
\* AS mov(...) WHERE mov.timestamp >= DATE_TRUNC('week', NOW()): the joined rows
SemanaRows(procs, now) ==
    UNION {{[numero |-> procs[id].numero,
             id |-> procs[id].movimentacoes[i].id,
             descricao |-> Column(procs[id].movimentacoes[i].descricao),
             timestamp |-> procs[id].movimentacoes[i].timestamp,
             concluido |-> Column(procs[id].movimentacoes[i].concluido),
             prazo_fatal |-> procs[id].movimentacoes[i].prazo_fatal] :
            i \in {j \in DOMAIN procs[id].movimentacoes :
                     procs[id].movimentacoes[j].timestamp >= DateTruncWeek(now)}} :
           id \in DOMAIN procs}

\* ORDER BY mov.timestamp DESC: the results the query may give
SemanaRes(procs, now) ==
    LET rows == SemanaRows(procs, now)
    IN {res \in [1..Cardinality(rows) -> rows] :
           /\ \A i, j \in DOMAIN res : i # j => res[i] # res[j]
           /\ \A i, j \in DOMAIN res : i < j => res[i].timestamp >= res[j].timestamp}

\* GET /api/gestao, the first query
GestaoPendentes(h) ==
    /\ Receive
    /\ Free(h)
    /\ \E pendentesRes \in StatusRes(processes, Pendente) :
          handler' = [handler EXCEPT ![h] =
              [op |-> "gestao", pendentesRes |-> pendentesRes]]
    /\ UNCHANGED <<boot, processes, clock, response>>

\* GET /api/gestao, the second query
GestaoExecucao(h) ==
    /\ handler[h].op = "gestao"
    /\ \E execucaoRes \in StatusRes(processes, EmExecucao) :
          handler' = [handler EXCEPT ![h] =
              [op |-> "gestao:semana", pendentesRes |-> handler[h].pendentesRes,
               execucaoRes |-> execucaoRes]]
    /\ UNCHANGED <<boot, processes, clock, response, nreq>>

\* GET /api/gestao, the third query and the response
GestaoSemana(h) ==
    /\ handler[h].op = "gestao:semana"
    /\ \E semanaRes \in SemanaRes(processes, clock) :
          response' = [code |-> 200, view |-> "gestao",
                       body |-> [pendentes |-> handler[h].pendentesRes,
                                 execucao |-> handler[h].execucaoRes,
                                 semana |-> semanaRes]]
    /\ handler' = [handler EXCEPT ![h] = Idle]
    /\ UNCHANGED <<boot, processes, clock, nreq>>

\* the server is listening and the table is empty
InitGestao ==
    /\ boot = [Returned(TRUE) EXCEPT !.pc = "listening", !.schema = TRUE]
    /\ processes = <<>>
    /\ clock = 1
    /\ handler = [h \in Handlers |-> Idle]
    /\ response = NoResponse
    /\ nreq = 0

\* the view, and the requests that write the status it reads
NextGestao ==
    \/ Tick
    \/ \E n \in NumeroInputs, c \in ClienteInputs : CreateProcess(n, c, Undefined)
    \/ \E id \in Ids, st \in StatusInputs : SetStatus(id, st)
    \/ \E h \in Handlers, id \in Ids, d \in DescricaoInputs, p \in PrazoInputs :
          AppendMovementBegin(h, id, d, p)
    \/ \E h \in Handlers : AppendMovementQuery(h)
    \/ \E h \in Handlers : GestaoPendentes(h)
    \/ \E h \in Handlers : GestaoExecucao(h)
    \/ \E h \in Handlers : GestaoSemana(h)

SpecGestao == InitGestao /\ [][NextGestao]_vars

\* C22: in one gestao response no process is both in the pending list and in
\* the execution list, whatever setStatus or deadline-carrying appendMovement
\* was committed between the queries of that response.
C22_GestaoListsDisjoint ==
    response.view = "gestao"
    => \A i \in DOMAIN response.body.pendentes, j \in DOMAIN response.body.execucao :
          response.body.pendentes[i].id # response.body.execucao[j].id

====
